---- MODULE Spec2Model ----
(***************************************************************************)
(* The job processing pipeline of the review import service:               *)
(* ReviewProcessor (processPendingJobs, processJob, processTripAdvisorJob, *)
(* pollDataForSEOResults, processReviewBatches, transformReviewData,       *)
(* completeJob, updateJobStatus, sendNotification), DataForSEOClient       *)
(* (createTripAdvisorTask, getTaskResults) and JobManager (startJob,       *)
(* cancelJob, retryJob).  Every await of the JavaScript code is a point    *)
(* where another request handler may run, so every store or provider call  *)
(* is one atomic step of the calling handler.                              *)
(***************************************************************************)
EXTENDS Integers, Sequences, FiniteSets, TLC

VARIABLES
    jobs,           \* table review_sync_jobs: job id -> row, for the rows that exist
    reviews,        \* table external_reviews: the natural keys stored
    notifications,  \* table job_notifications: the inserts of the last step, each
                    \* with whether the store took it
    call,           \* per HTTP request running processJob / processPendingJobs
    mgr,            \* the JobManager request in flight (startJob, cancelJob, retryJob)
    now,            \* Date.now()
    nextTask,       \* the provider's next task id
    rawResult,      \* tasks[0].result the provider holds for a finished task
    submitted,      \* job id -> number of provider tasks created since the last retry
    faults          \* the calls that may fail in this run, among "store" (the job
                    \* table), "reviews" (the upsert), "notify" and "provider"

vars == <<jobs, reviews, notifications, call, mgr, now, nextTask, rawResult, submitted, faults>>

----------------------------------------------------------------------------
\* Bounds of the model.

\* maxPolls of pollDataForSEOResults (60 in the source), scaled down.
maxPolls == 2
\* config.batchSize (100 in the source), scaled down.
batchSize == 2
\* The longest raw result set (items over all pages).
MaxItems == 3
\* The last value of the clock.
MaxClock == 1
\* The number of tasks the provider hands out.
MaxTasks == 2

JobIds == {"j1", "j2"}
Callers == {"c1", "c2"}
Users == {"u1", "u2"}

Platforms == {"tripadvisor", "google"}

----------------------------------------------------------------------------
\* Strings the code tests with includes / startsWith are sequences of tokens.

Includes(msg, sub) ==
    \E k \in 0..(Len(msg) - Len(sub)) : SubSeq(msg, k + 1, k + Len(sub)) = sub

ToLowerCase(tok) ==
    CASE tok = "Ok" -> "ok"
      [] tok = "OK" -> "ok"
      [] tok = "Task" -> "task"
      [] OTHER -> tok

StartsWithOk(msg) == Len(msg) > 0 /\ ToLowerCase(msg[1]) = "ok"

\* status_message values of the provider's task_get response.
StatusMessages ==
    { <<"Task", "In", "Queue">>,
      <<"Task", "Processing">>,
      <<"Task", "In", "Queue", ".">>,
      <<"Ok", ".">>,
      <<"Task", "Not", "Found", ".">> }

MsgStillProcessing == <<"Task", "still", "processing">>
MsgTimedOut == <<"DataForSEO", "task", "timed", "out", "after", "30", "minutes">>
MsgNoResults == <<"No", "results", "returned", "from", "DataForSEO">>
MsgCancelled == <<"Cancelled", "by", "user">>
MsgInvalidUrl == <<"Invalid", "TripAdvisor", "URL", "format">>
MsgNotAFunction == <<"this.processGoogleJob", "is", "not", "a", "function">>
MsgJobNotFound(j) == <<"Job", j, "not", "found">>
MsgUnsupported(p) == <<"Unsupported", "platform", ":", p>>
MsgRequestFailed(m) == <<"DataForSEO", "request", "failed", ":">> \o m
MsgApiError == <<"DataForSEO", "API", "error", ":", "500">>
MsgTaskFailed(m) == <<"DataForSEO", "task", "failed", ":">> \o m
MsgNoTaskResult == <<"No", "task", "result", "found">>
MsgCreationFailed == <<"DataForSEO", "task", "creation", "failed", ":", "{}">>

NoError == <<>>          \* error: null
NoTime == -1             \* a timestamp column holding null
\* last_cursor: null (JSON.parse('{}').task_id is undefined, which is falsy like 0)
NullCursor == [task_id |-> 0, created_at |-> NoTime]

----------------------------------------------------------------------------
\* DataForSEOClient.getTaskResults

\* What axios.get yields: a body whose tasks[0] carries status_message (and
\* result), a body without tasks, an HTTP error status, or no response at all.
Responses ==
    [kind : {"task"}, status_message : StatusMessages]
        \cup [kind : {"no_task", "http_error", "network_error"}, status_message : {<<>>}]

Returned(v) == [ok |-> TRUE, value |-> v, message |-> <<>>]
Thrown(m) == [ok |-> FALSE, value |-> <<>>, message |-> m]

\* The catch block of getTaskResults.
GetTaskResultsCatch(message, hasResponse) ==
    IF Includes(message, <<"Task", "still", "processing">>)
         \/ Includes(message, <<"Task", "In", "Queue">>)
    THEN Thrown(message)
    ELSE IF hasResponse THEN Thrown(MsgApiError)
    ELSE Thrown(MsgRequestFailed(message))

getTaskResults(resp, result) ==
    CASE resp.kind = "http_error" ->
           GetTaskResultsCatch(<<"Request", "failed", "with", "status", "code", "500">>, TRUE)
      [] resp.kind = "network_error" ->
           GetTaskResultsCatch(<<"timeout", "of", "30000ms", "exceeded">>, FALSE)
      [] resp.kind = "no_task" ->
           GetTaskResultsCatch(MsgNoTaskResult, FALSE)
      [] OTHER ->
           LET statusMessage == resp.status_message IN
           IF statusMessage = <<"Task", "In", "Queue">>
                \/ statusMessage = <<"Task", "Processing">>
           THEN GetTaskResultsCatch(MsgStillProcessing, FALSE)
           ELSE IF ~StartsWithOk(statusMessage)
           THEN GetTaskResultsCatch(MsgTaskFailed(statusMessage), FALSE)
           ELSE Returned(result)

\* The client's pending outcome: the error thrown under "still processing".
IsTaskPending(outcome) == ~outcome.ok /\ outcome.message = MsgStillProcessing

\* A retry test that takes every message about the task for a pending one.
PollRetriesAnyTask(message) == Includes(message, <<"Task">>)

\* The test of the catch block of pollDataForSEOResults: wait and poll again.
PollRetries(message) ==
    \/ Includes(message, <<"Task", "In", "Queue">>)
    \/ Includes(message, <<"Task", "Processing">>)

----------------------------------------------------------------------------
\* The raw items of a result page, and transformReviewData.

Absent == "undefined"

\* A JavaScript number: an integer or NaN.
Num(n) == [nan |-> FALSE, n |-> n]
NaN == [nan |-> TRUE, n |-> 0]

\* review.rating: undefined, a number, an object with a value, or an object
\* without one.  review.score: a number, 0 when the item has none (undefined
\* and 0 are falsy alike).
NoRating == [kind |-> "undefined", n |-> 0]
NumberRating(n) == [kind |-> "number", n |-> n]
ObjectRating(value) == [kind |-> "object", n |-> value]
EmptyObjectRating == [kind |-> "object_without_value", n |-> 0]

Max(a, b) == IF a > b THEN a ELSE b

\* Math.max(1, Math.min(5, review.rating?.value || review.rating || review.score || 5)):
\* an object that reaches Math.min converts to NaN, and so does the result.
Rating(review) ==
    LET isObject == review.rating.kind \in {"object", "object_without_value"}
        value == IF review.rating.kind = "object" THEN review.rating.n ELSE 0
    IN  IF isObject /\ value # 0 THEN Num(Max(1, IF value < 5 THEN value ELSE 5))
        ELSE IF isObject THEN NaN
        ELSE IF review.rating.kind = "number" /\ review.rating.n # 0
        THEN Num(Max(1, IF review.rating.n < 5 THEN review.rating.n ELSE 5))
        ELSE IF review.score # 0
        THEN Num(Max(1, IF review.score < 5 THEN review.score ELSE 5))
        ELSE Num(5)
\* JSON null among the items of a page.
NullItem == [review_id |-> "null", id |-> "null", date_of_review |-> "null",
        rating |-> NoRating, score |-> 0]

\* The shapes of raw item: review_id and id present or not, the date readable
\* by new Date(..) or not.
ItemShapes ==
    { [review_id |-> "r1", id |-> Absent, date_of_review |-> "2024-01-01",
        rating |-> NoRating, score |-> 0],
      [review_id |-> Absent, id |-> "r2", date_of_review |-> "2024-01-01",
        rating |-> NoRating, score |-> 0],
      [review_id |-> Absent, id |-> Absent, date_of_review |-> "2024-01-01",
        rating |-> NoRating, score |-> 0],
      [review_id |-> "r1", id |-> Absent, date_of_review |-> "not a date",
        rating |-> NoRating, score |-> 0],
      NullItem }

\* external_id: an identifier of the item, or the string
\* `${job.platform}_${job.id}_${index}_${Date.now()}`.
GivenId(v) == [given |-> v, platform |-> "", job |-> "", index |-> 0, at |-> 0]
SyntheticId(platform, jobId, index, t) ==
    [given |-> "", platform |-> platform, job |-> jobId, index |-> index, at |-> t]

IsSynthetic(externalId) == externalId.given = ""

\* A raw item carries an identifier of its own.
HasIdentifier(review) ==
    review # NullItem /\ (review.review_id # Absent \/ review.id # Absent)

\* The result of the failed transformation (the catch block returns null).
NullRecord ==
    [tour_operator_id |-> "", source |-> "", external_id |-> GivenId(""), rating |-> Num(0)]

transformReviewData(review, job, jobId, index, t) ==
    IF review = NullItem
    THEN NullRecord                      \* review.review_id of null throws
    ELSE LET externalId ==
                 IF review.review_id # Absent THEN GivenId(review.review_id)
                 ELSE IF review.id # Absent THEN GivenId(review.id)
                 ELSE SyntheticId(job.platform, jobId, index, t)
         IN  IF review.date_of_review = "not a date"
             THEN NullRecord             \* toISOString of an invalid Date throws
             ELSE [tour_operator_id |-> job.tour_operator_id,
                   source |-> job.platform,
                   external_id |-> externalId,
                   rating |-> Rating(review)]

\* allReviews.slice(i, i + batchSize)
Slice(s, i, n) == SubSeq(s, i + 1, IF i + n < Len(s) THEN i + n ELSE Len(s))

\* batch.map(transformReviewData).filter(review => review && review.external_id)
RECURSIVE ReviewsToInsert(_, _, _, _, _)
ReviewsToInsert(batch, job, jobId, i, t) ==
    IF batch = <<>> THEN <<>>
    ELSE LET rest == ReviewsToInsert(Tail(batch), job, jobId, i + 1, t)
             r == transformReviewData(Head(batch), job, jobId, i, t)
         IN  IF r = NullRecord THEN rest ELSE <<r>> \o rest

\* The natural key the upsert resolves conflicts on.
NaturalKey(r) == <<r.tour_operator_id, r.source, r.external_id>>

\* Math.round(x) for the quotient p / q >= 0.
Round(p, q) == (2 * p + q) \div (2 * q)

Min(a, b) == IF a < b THEN a ELSE b

\* The plain percentage of the items gone through.
PlainPercentage(done, totalReviews) == Round(done * 100, totalReviews)

\* Math.min(95, Math.round(((i + batch.length) / totalReviews) * 85) + 10)
ProgressPercentage(done, totalReviews) == Min(95, Round(done * 85, totalReviews) + 10)

\* allReviews: the items of every page that has an items array.
RECURSIVE AllReviews(_)
AllReviews(results) ==
    IF results = <<>> THEN <<>>
    ELSE (IF Head(results).has_items THEN Head(results).items ELSE <<>>)
            \o AllReviews(Tail(results))

----------------------------------------------------------------------------
\* The job store.

JobRow(platform, businessId) ==
    [platform |-> platform,
     tour_operator_id |-> "u1",
     source_business_id |-> businessId,
     full_history |-> TRUE,
     status |-> "queued",
     last_cursor |-> NullCursor,
     progress_percentage |-> 0,
     imported_count |-> 0,
     total_available |-> 0,
     error |-> NoError,
     started_at |-> NoTime,
     completed_at |-> NoTime]

\* The columns of the selected row that processJob and the functions it calls read.
JobRead(row) ==
    [platform |-> row.platform,
     tour_operator_id |-> row.tour_operator_id,
     source_business_id |-> row.source_business_id,
     full_history |-> row.full_history,
     last_cursor |-> row.last_cursor]

NoRow == JobRead(JobRow("", ""))

\* Whether a call on the store, or an insert of a notification, goes through.
StoreReplies == IF "store" \in faults THEN BOOLEAN ELSE {TRUE}
UpsertReplies == IF "reviews" \in faults THEN BOOLEAN ELSE {TRUE}
NotifyReplies == IF "notify" \in faults THEN BOOLEAN ELSE {TRUE}

\* .update(fields).eq('id', j): the named columns of the row, when it exists.
Update(j, fields) ==
    IF j \in DOMAIN jobs
    THEN [jobs EXCEPT ![j] = [k \in DOMAIN @ |-> IF k \in DOMAIN fields THEN fields[k] ELSE @[k]]]
    ELSE jobs

\* ReviewProcessor.updateJobStatus: a rejected write is logged and dropped.
updateJobStatus(j, status, updates, accepted) ==
    IF accepted THEN Update(j, ("status" :> status) @@ updates) ELSE jobs

\* ReviewProcessor.sendNotification: reads the job, inserts when it exists; a
\* failing insert is caught.
sendNotification(j, type, delivered) ==
    IF j \in DOMAIN jobs
    THEN {[job_id |-> j, type |-> type, inserted |-> delivered]}
    ELSE {}

\* JobManager.sendNotification: inserts; a failing insert is caught.
managerSendNotification(j, type, delivered) ==
    {[job_id |-> j, type |-> type, inserted |-> delivered]}

\* A step that makes no insert into job_notifications.
Quiet == notifications' = {}

----------------------------------------------------------------------------
\* A request running processJob (POST /api/job/:job_id/process) or
\* processPendingJobs (POST /api/process/pending).

\* No answer of the provider received yet.
NoReply == [kind |-> "none", status_message |-> <<>>]

\* A request that asks for every review whatever the job says.
DepthAlwaysFull(fullHistory) == 500

\* depth: fullHistory ? 500 : 100
Depth(fullHistory) == IF fullHistory THEN 500 ELSE 100

\* taskData[0] of createTripAdvisorTask and of createGoogleTask.
TripAdvisorTaskData(urlPath, fullHistory) ==
    [endpoint |-> "tripadvisor/reviews/task_post", target |-> urlPath,
     priority |-> 2, depth |-> Depth(fullHistory)]

GoogleTaskData(businessId, fullHistory) ==
    [endpoint |-> "google/reviews/task_post", target |-> businessId,
     priority |-> 2, depth |-> Depth(fullHistory)]

\* No task_post made yet.
NoPost == [endpoint |-> "none", target |-> "", priority |-> 0, depth |-> 0]

\* last: the provider's answer to the latest task_post or task_get of the call;
\* posted: the body of its latest task_post; attempts: how many times the call
\* has entered the switch on the platform; insertError: whether its latest
\* upsert returned an error; ratings: the rating of each row it wrote.
IdleCall ==
    [pc |-> "idle", mode |-> "none", job |-> "", snap |-> NoRow, taskId |-> 0,
     pollCount |-> 0, fetches |-> 0, pendings |-> 0, allReviews |-> <<>>, i |-> 0,
     processedCount |-> 0, error |-> NoError, queue |-> <<>>, results |-> <<>>,
     outcome |-> "none", last |-> NoReply, posted |-> NoPost, attempts |-> 0,
     insertError |-> FALSE, ratings |-> <<>>]

\* req.body of POST /api/import/start; a field the body lacks is Absent.
StartBody(j) == [job_id |-> j, platform |-> "tripadvisor", url |-> "/Attraction_Review"]
NoBody == [job_id |-> "", platform |-> "", url |-> ""]

StartBodies ==
    [job_id : JobIds \cup {Absent}, platform : {"tripadvisor", Absent},
     url : {"/Attraction_Review", Absent}]

\* if (!job_id || !platform || !url)
MissingFields(body) == body.job_id = Absent \/ body.platform = Absent \/ body.url = Absent

IdleMgr ==
    [pc |-> "idle", op |-> "none", job |-> "", user |-> "", outcome |-> "none",
     body |-> NoBody]

\* A sweep without the try around processJob: the first error ends it.
FinishStopsAtError(cr, success) ==
    IF cr.mode = "sweep" /\ success /\ Tail(cr.queue) # <<>>
    THEN [IdleCall EXCEPT !.pc = "pj_select", !.mode = "sweep",
                          !.job = Head(Tail(cr.queue)), !.queue = Tail(cr.queue),
                          !.results = Append(cr.results, [job_id |-> cr.job, success |-> success])]
    ELSE [IdleCall EXCEPT !.pc = "done", !.job = cr.job,
                          !.results = IF cr.mode = "sweep"
                                      THEN Append(cr.results, [job_id |-> cr.job, success |-> success])
                                      ELSE <<>>,
                          !.outcome = IF success THEN "returned" ELSE "raised"]

\* processJob has returned (success) or raised: the manual trigger answers; the
\* sweep records the outcome and goes on with the next job of its list.
Finish(cr, success) ==
    IF cr.mode = "sweep"
    THEN LET results == Append(cr.results, [job_id |-> cr.job, success |-> success])
             queue == Tail(cr.queue)
         IN  IF queue = <<>>
             THEN [IdleCall EXCEPT !.pc = "done", !.results = results, !.outcome = "returned"]
             ELSE [IdleCall EXCEPT !.pc = "pj_select", !.mode = "sweep",
                                   !.job = Head(queue), !.queue = queue,
                                   !.results = results]
    ELSE [IdleCall EXCEPT !.pc = "done", !.job = cr.job,
                          !.outcome = IF success THEN "returned" ELSE "raised"]

\* An error reaches the catch block of processJob.
Raise(cr, message) == [cr EXCEPT !.pc = "pj_catch", !.error = message]

maxConcurrentJobs == 5
maxRetries == 3

\* .in('status', ['running', 'processing'])
Eligible == {j \in DOMAIN jobs : jobs[j].status \in {"running", "processing"}}

\* .order('started_at', {ascending: true}): null sorts last.
StartKey(j) == IF jobs[j].started_at = NoTime THEN MaxClock + 1 ELSE jobs[j].started_at

\* A select without .limit: every eligible job, in order.
SelectionsUnlimited ==
    LET n == Cardinality(Eligible)
    IN  {q \in [1..n -> Eligible] :
            /\ \A a, b \in 1..n : a # b => q[a] # q[b]
            /\ \A a, b \in 1..n : a < b => StartKey(q[a]) <= StartKey(q[b])}

\* The orders the store may return the eligible jobs in, cut at the limit.
Selections ==
    LET n == Cardinality(Eligible)
        orders == {q \in [1..n -> Eligible] :
                      /\ \A a, b \in 1..n : a # b => q[a] # q[b]
                      /\ \A a, b \in 1..n : a < b => StartKey(q[a]) <= StartKey(q[b])}
    IN  {SubSeq(q, 1, Min(n, maxConcurrentJobs)) : q \in orders}

\* POST /api/job/:job_id/process
ProcessJobRequest(c, j) ==
    /\ call[c].pc = "idle"
    /\ call' = [call EXCEPT ![c] = [IdleCall EXCEPT !.pc = "pj_select", !.mode = "manual", !.job = j]]
    /\ UNCHANGED <<jobs, reviews, mgr, now, nextTask, rawResult, submitted, faults>>
    /\ Quiet

\* POST /api/process/pending: processPendingJobs up to the first processJob.
SweepRequest(c) ==
    /\ call[c].pc = "idle"
    /\ \E fetched \in StoreReplies, q \in Selections :
          call' = [call EXCEPT ![c] =
              IF ~fetched THEN [IdleCall EXCEPT !.pc = "done", !.outcome = "raised"]
              ELSE IF q = <<>> THEN [IdleCall EXCEPT !.pc = "done", !.outcome = "returned"]
              ELSE [IdleCall EXCEPT !.pc = "pj_select", !.mode = "sweep",
                                    !.job = Head(q), !.queue = q]]
    /\ UNCHANGED <<jobs, reviews, mgr, now, nextTask, rawResult, submitted, faults>>
    /\ Quiet

\* processJob: the select of the job row.
PjSelect(c) ==
    LET cr == call[c] IN
    /\ cr.pc = "pj_select"
    /\ \E fetched \in StoreReplies :
       call' = [call EXCEPT ![c] =
          IF fetched /\ cr.job \in DOMAIN jobs
          THEN [cr EXCEPT !.pc = "pj_mark", !.snap = JobRead(jobs[cr.job])]
          ELSE Raise(cr, MsgJobNotFound(cr.job))]
    /\ UNCHANGED <<jobs, reviews, mgr, now, nextTask, rawResult, submitted, faults>>
    /\ Quiet

\* extractTripAdvisorPath: an http URL must match one of the patterns.
ValidBusinessId(businessId) == businessId # "http://bad"

\* A pickup that creates a task whatever the cursor holds.
PjMarkAlwaysCreates(c) ==
    LET cr == [call[c] EXCEPT !.attempts = @ + 1] IN
    /\ cr.pc = "pj_mark"
    /\ jobs' = updateJobStatus(cr.job, "processing", [progress_percentage |-> 5], TRUE)
    /\ call' = [call EXCEPT ![c] =
          IF cr.snap.platform = "tripadvisor" /\ ValidBusinessId(cr.snap.source_business_id)
          THEN [cr EXCEPT !.pc = "ta_create"]
          ELSE Raise(cr, MsgUnsupported(cr.snap.platform))]
    /\ UNCHANGED <<reviews, mgr, now, nextTask, rawResult, submitted, faults>>
    /\ Quiet

\* processJob: status processing, progress 5; then the switch on the platform and
\* processTripAdvisorJob up to its first call (the cursor decides which).
PjMark(c) ==
    LET cr == [call[c] EXCEPT !.attempts = @ + 1]
        job == cr.snap
        taskId == job.last_cursor.task_id
    IN
    /\ cr.pc = "pj_mark"
    /\ \E accepted \in StoreReplies :
          jobs' = updateJobStatus(cr.job, "processing", [progress_percentage |-> 5], accepted)
    /\ call' = [call EXCEPT ![c] =
          CASE job.platform = "tripadvisor" ->
                 IF taskId = 0
                 THEN IF ValidBusinessId(job.source_business_id)
                      THEN [cr EXCEPT !.pc = "ta_create"]
                      ELSE Raise(cr, MsgInvalidUrl)
                 ELSE [cr EXCEPT !.pc = "poll", !.taskId = taskId]
            [] job.platform = "google" -> Raise(cr, MsgNotAFunction)
            [] OTHER -> Raise(cr, MsgUnsupported(job.platform))]
    /\ UNCHANGED <<reviews, mgr, now, nextTask, rawResult, submitted, faults>>
    /\ Quiet

\* What the provider answers: a task id while it hands out tasks (an HTTP
\* error after that), a body without id or no answer when it may fail.
TaskReplies ==
    (IF nextTask <= MaxTasks THEN {"id"} ELSE {"http_error"})
        \cup (IF "provider" \in faults THEN {"no_id", "http_error", "network_error"} ELSE {})

\* What the provider answers to task_get.
FetchReplies ==
    IF "provider" \in faults THEN Responses
    ELSE {r \in Responses : r.kind = "task"}

\* The answer to task_post, as the call keeps it.
TaskReply(reply) == [kind |-> reply, status_message |-> <<>>]

\* A client that hands on whatever id the answer holds, even none.
createTaskWithoutCheck(reply) ==
    CASE reply = "id" -> Returned(nextTask)
      [] reply = "no_id" -> Returned(0)
      [] reply = "http_error" -> Thrown(MsgApiError)
      [] OTHER -> Thrown(MsgRequestFailed(<<"timeout", "of", "30000ms", "exceeded">>))

\* DataForSEOClient.createTripAdvisorTask

createTripAdvisorTask(reply) ==
    CASE reply = "id" -> Returned(nextTask)
      [] reply = "no_id" -> Thrown(MsgRequestFailed(MsgCreationFailed))
      [] reply = "http_error" -> Thrown(MsgApiError)
      [] OTHER -> Thrown(MsgRequestFailed(<<"timeout", "of", "30000ms", "exceeded">>))

MsgGoogleCreationFailed == <<"Google", "task", "creation", "failed", ":", "{}">>

\* DataForSEOClient.createGoogleTask
createGoogleTask(reply) ==
    CASE reply = "id" -> Returned(nextTask)
      [] reply = "no_id" -> Thrown(MsgRequestFailed(MsgGoogleCreationFailed))
      [] reply = "http_error" -> Thrown(MsgApiError)
      [] OTHER -> Thrown(MsgRequestFailed(<<"timeout", "of", "30000ms", "exceeded">>))

\* processTripAdvisorJob: no task id in the cursor, a task is created.
TaCreate(c) ==
    LET cr == call[c]
        sent == [cr EXCEPT !.posted = TripAdvisorTaskData(cr.snap.source_business_id,
                                                          cr.snap.full_history)]
    IN
    /\ cr.pc = "ta_create"
    /\ \E reply \in TaskReplies :
          /\ LET created == createTripAdvisorTask(reply) IN
             IF created.ok
             THEN /\ call' = [call EXCEPT ![c] = [sent EXCEPT !.pc = "ta_cursor", !.taskId = created.value,
                                                              !.last = TaskReply(reply)]]
                  /\ nextTask' = nextTask + 1
                  /\ submitted' = [submitted EXCEPT ![cr.job] = @ + 1]
             ELSE /\ call' = [call EXCEPT ![c] = Raise([sent EXCEPT !.last = TaskReply(reply)], created.message)]
                  /\ UNCHANGED <<nextTask, submitted>>
    /\ UNCHANGED <<jobs, reviews, mgr, now, rawResult, faults>>
    /\ Quiet

\* processTripAdvisorJob: the cursor is written with progress 10.
TaCursor(c) ==
    LET cr == call[c] IN
    /\ cr.pc = "ta_cursor"
    /\ \E accepted \in StoreReplies :
          jobs' = updateJobStatus(cr.job, "processing",
                     [last_cursor |-> [task_id |-> cr.taskId, created_at |-> now],
                      progress_percentage |-> 10], accepted)
    /\ call' = [call EXCEPT ![c] = [cr EXCEPT !.pc = "poll"]]
    /\ UNCHANGED <<reviews, mgr, now, nextTask, rawResult, submitted, faults>>
    /\ Quiet

\* createGoogleTask called on the client with a keyword and fullHistory: the
\* task_post and its outcome.
CreateGoogleTaskCall(c, businessId, fullHistory) ==
    /\ call[c].pc = "idle"
    /\ \E reply \in TaskReplies :
          LET created == createGoogleTask(reply)
              args == [NoRow EXCEPT !.platform = "google",
                                    !.source_business_id = businessId,
                                    !.full_history = fullHistory]
          IN  /\ call' = [call EXCEPT ![c] =
                    [IdleCall EXCEPT !.pc = "done", !.mode = "client", !.snap = args,
                                     !.posted = GoogleTaskData(businessId, fullHistory),
                                     !.last = TaskReply(reply),
                                     !.taskId = IF created.ok THEN created.value ELSE 0,
                                     !.error = created.message,
                                     !.outcome = IF created.ok THEN "returned" ELSE "raised"]]
              /\ nextTask' = IF created.ok THEN nextTask + 1 ELSE nextTask
    /\ UNCHANGED <<jobs, reviews, mgr, now, rawResult, submitted, faults>>
    /\ Quiet

\* A poll loop that waits for a pending task without counting its turns.
PollNeverTimesOut(c) ==
    LET cr == call[c] IN
    /\ cr.pc = "poll"
    /\ \E resp \in FetchReplies :
          LET fetched == getTaskResults(resp, rawResult)
              allReviews == AllReviews(fetched.value)
          IN  call' = [call EXCEPT ![c] =
                 IF fetched.ok /\ Len(fetched.value) > 0
                 THEN IF Len(allReviews) = 0
                      THEN [cr EXCEPT !.pc = "complete", !.last = resp]
                      ELSE [cr EXCEPT !.pc = "batch", !.last = resp, !.allReviews = allReviews]
                 ELSE IF fetched.ok \/ PollRetries(fetched.message)
                 THEN [cr EXCEPT !.last = resp]
                 ELSE Raise([cr EXCEPT !.last = resp], fetched.message)]
    /\ UNCHANGED <<jobs, reviews, mgr, now, nextTask, rawResult, submitted, faults>>
    /\ Quiet

\* One turn of the loop of pollDataForSEOResults, and what processTripAdvisorJob
\* does with the results up to its next call.
Poll(c) ==
    LET cr == call[c] IN
    /\ cr.pc = "poll"
    /\ \E resp \in FetchReplies :
          LET fetched == getTaskResults(resp, rawResult)
              counted == [cr EXCEPT !.last = resp,
                                    !.fetches = @ + 1,
                                    !.pendings = @ + (IF IsTaskPending(fetched) THEN 1 ELSE 0)]
              allReviews == AllReviews(fetched.value)
          IN  call' = [call EXCEPT ![c] =
                 IF fetched.ok /\ Len(fetched.value) > 0
                 THEN IF Len(allReviews) = 0
                      THEN [counted EXCEPT !.pc = "complete"]
                      ELSE [counted EXCEPT !.pc = "batch", !.allReviews = allReviews]
                 ELSE IF fetched.ok \/ PollRetries(fetched.message)
                 THEN IF cr.pollCount + 1 < maxPolls
                      THEN [counted EXCEPT !.pollCount = @ + 1]
                      ELSE Raise([counted EXCEPT !.pollCount = @ + 1], MsgTimedOut)
                 ELSE Raise(counted, fetched.message)]
    /\ UNCHANGED <<jobs, reviews, mgr, now, nextTask, rawResult, submitted, faults>>
    /\ Quiet

\* An import that a failed upsert aborts: the error reaches processJob.
NextBatchUnlessFailed(cr) ==
    IF cr.pc = "batch_progress" /\ cr.processedCount < cr.i + batchSize
         /\ cr.processedCount < Len(cr.allReviews)
    THEN [cr EXCEPT !.pc = "pj_catch", !.error = <<"upsert", "failed">>]
    ELSE IF cr.i + batchSize < Len(cr.allReviews)
    THEN [cr EXCEPT !.pc = "batch", !.i = @ + batchSize]
    ELSE [cr EXCEPT !.pc = "complete", !.i = @ + batchSize]

\* processReviewBatches: the batch at i is transformed and upserted; a batch
\* that leaves nothing to insert is skipped.
NextBatch(cr) ==
    IF cr.i + batchSize < Len(cr.allReviews)
    THEN [cr EXCEPT !.pc = "batch", !.i = @ + batchSize]
    ELSE [cr EXCEPT !.pc = "complete", !.i = @ + batchSize]

Batch(c) ==
    LET cr == call[c]
        batch == Slice(cr.allReviews, cr.i, batchSize)
        reviewsToInsert == ReviewsToInsert(batch, cr.snap, cr.job, cr.i, now)
    IN
    /\ cr.pc = "batch"
    /\ IF reviewsToInsert = <<>>
       THEN /\ call' = [call EXCEPT ![c] = NextBatch(cr)]
            /\ UNCHANGED reviews
       ELSE \E inserted \in UpsertReplies :
            /\ reviews' = IF inserted
                          THEN reviews \cup {NaturalKey(reviewsToInsert[k]) : k \in DOMAIN reviewsToInsert}
                          ELSE reviews
            /\ call' = [call EXCEPT ![c] =
                  [cr EXCEPT !.pc = "batch_progress",
                             !.insertError = ~inserted,
                             !.ratings = IF inserted
                                         THEN [k \in DOMAIN reviewsToInsert |-> reviewsToInsert[k].rating]
                                         ELSE <<>>,
                             !.processedCount = IF inserted THEN @ + Len(reviewsToInsert) ELSE @]]
    /\ UNCHANGED <<jobs, mgr, now, nextTask, rawResult, submitted, faults>>
    /\ Quiet

\* processReviewBatches: the progress update after the upsert of a batch.
BatchProgress(c) ==
    LET cr == call[c]
        batch == Slice(cr.allReviews, cr.i, batchSize)
        totalReviews == Len(cr.allReviews)
        progressPercentage == ProgressPercentage(cr.i + Len(batch), totalReviews)
    IN
    /\ cr.pc = "batch_progress"
    /\ \E accepted \in StoreReplies :
          jobs' = updateJobStatus(cr.job, "processing",
                     [imported_count |-> cr.processedCount,
                      total_available |-> totalReviews,
                      progress_percentage |-> progressPercentage], accepted)
    /\ call' = [call EXCEPT ![c] =
          IF progressPercentage % 25 = 0 /\ progressPercentage > 0
          THEN [cr EXCEPT !.pc = "batch_notify"]
          ELSE NextBatch(cr)]
    /\ UNCHANGED <<reviews, mgr, now, nextTask, rawResult, submitted, faults>>
    /\ Quiet

\* processReviewBatches: the progress notification.
BatchNotify(c) ==
    LET cr == call[c] IN
    /\ cr.pc = "batch_notify"
    /\ \E delivered \in NotifyReplies :
          notifications' = sendNotification(cr.job, "progress", delivered)
    /\ call' = [call EXCEPT ![c] = NextBatch(cr)]
    /\ UNCHANGED <<jobs, reviews, mgr, now, nextTask, rawResult, submitted, faults>>

\* A completeJob whose rejected write reaches the catch block of processJob.
CompleteRaisesOnReject(c) ==
    LET cr == call[c] IN
    /\ cr.pc = "complete"
    /\ \E accepted \in StoreReplies :
          /\ jobs' = updateJobStatus(cr.job, "succeeded",
                         [imported_count |-> cr.processedCount,
                          total_available |-> Len(cr.allReviews),
                          progress_percentage |-> 100,
                          completed_at |-> now], accepted)
          /\ call' = [call EXCEPT ![c] =
                IF accepted THEN [cr EXCEPT !.pc = "complete_notify"]
                ELSE Raise(cr, <<"update", "rejected">>)]
    /\ UNCHANGED <<reviews, mgr, now, nextTask, rawResult, submitted, faults>>
    /\ Quiet

\* A completeJob that writes the status and the counts and leaves the progress.
CompleteKeepsProgress(c) ==
    LET cr == call[c] IN
    /\ cr.pc = "complete"
    /\ jobs' = updateJobStatus(cr.job, "succeeded",
                   [imported_count |-> cr.processedCount,
                    total_available |-> Len(cr.allReviews),
                    completed_at |-> now], TRUE)
    /\ call' = [call EXCEPT ![c] = [cr EXCEPT !.pc = "complete_notify"]]
    /\ UNCHANGED <<reviews, mgr, now, nextTask, rawResult, submitted, faults>>
    /\ Quiet

\* completeJob: the write of succeeded.
Complete(c) ==
    LET cr == call[c] IN
    /\ cr.pc = "complete"
    /\ \E accepted \in StoreReplies :
          jobs' = updateJobStatus(cr.job, "succeeded",
                     [imported_count |-> cr.processedCount,
                      total_available |-> Len(cr.allReviews),
                      progress_percentage |-> 100,
                      completed_at |-> now], accepted)
    /\ call' = [call EXCEPT ![c] = [cr EXCEPT !.pc = "complete_notify"]]
    /\ UNCHANGED <<reviews, mgr, now, nextTask, rawResult, submitted, faults>>
    /\ Quiet

\* A completeJob whose failed notification reaches the catch block of processJob.
CompleteNotifyAborts(c) ==
    LET cr == call[c] IN
    /\ cr.pc = "complete_notify"
    /\ \E delivered \in NotifyReplies :
          /\ notifications' = sendNotification(cr.job, "completed", delivered)
          /\ call' = [call EXCEPT ![c] =
                IF delivered THEN Finish(cr, TRUE)
                ELSE Raise(cr, <<"insert", "failed">>)]
    /\ UNCHANGED <<jobs, reviews, mgr, now, nextTask, rawResult, submitted, faults>>

\* completeJob: the completed notification; processJob returns.
CompleteNotify(c) ==
    LET cr == call[c] IN
    /\ cr.pc = "complete_notify"
    /\ \E delivered \in NotifyReplies :
          notifications' = sendNotification(cr.job, "completed", delivered)
    /\ call' = [call EXCEPT ![c] = Finish(cr, TRUE)]
    /\ UNCHANGED <<jobs, reviews, mgr, now, nextTask, rawResult, submitted, faults>>

\* A catch block that marks the job failed and loses the message.
PjCatchDropsMessage(c) ==
    LET cr == call[c] IN
    /\ cr.pc = "pj_catch"
    /\ jobs' = updateJobStatus(cr.job, "failed", [error |-> NoError], TRUE)
    /\ call' = [call EXCEPT ![c] = [cr EXCEPT !.pc = "fail_notify"]]
    /\ UNCHANGED <<reviews, mgr, now, nextTask, rawResult, submitted, faults>>
    /\ Quiet

\* The catch block of processJob: the write of failed with the message.
PjCatch(c) ==
    LET cr == call[c] IN
    /\ cr.pc = "pj_catch"
    /\ \E accepted \in StoreReplies :
          jobs' = updateJobStatus(cr.job, "failed", [error |-> cr.error], accepted)
    /\ call' = [call EXCEPT ![c] = [cr EXCEPT !.pc = "fail_notify"]]
    /\ UNCHANGED <<reviews, mgr, now, nextTask, rawResult, submitted, faults>>
    /\ Quiet

\* The catch block of processJob: the failed notification; the error is rethrown.
FailNotify(c) ==
    LET cr == call[c] IN
    /\ cr.pc = "fail_notify"
    /\ \E delivered \in NotifyReplies :
          notifications' = sendNotification(cr.job, "failed", delivered)
    /\ call' = [call EXCEPT ![c] = Finish(cr, FALSE)]
    /\ UNCHANGED <<jobs, reviews, mgr, now, nextTask, rawResult, submitted, faults>>

\* The handler answers the request with what processJob or processPendingJobs
\* returned or raised.
Respond(c) ==
    /\ call[c].pc = "done"
    /\ call' = [call EXCEPT ![c] = IdleCall]
    /\ UNCHANGED <<jobs, reviews, mgr, now, nextTask, rawResult, submitted, faults>>
    /\ Quiet

----------------------------------------------------------------------------
\* JobManager: startJob, cancelJob, retryJob.

MgrUnchanged == UNCHANGED <<reviews, call, now, nextTask, rawResult, faults>>

\* A start route that hands every body to startJob, which goes on to its
\* update whether it found the job or not.
StartJobRequestUnchecked(body) ==
    /\ mgr.pc = "idle"
    /\ mgr' = [IdleMgr EXCEPT !.op = "startJob", !.job = body.job_id, !.body = body,
                              !.pc = "start_update"]
    /\ UNCHANGED <<jobs, submitted>>
    /\ Quiet
    /\ MgrUnchanged

\* POST /api/import/start: the check of the body (400 when a field is missing),
\* then startJob: the select of the job.
StartJobRequest(body) ==
    /\ mgr.pc = "idle"
    /\ \E fetched \in StoreReplies :
          LET j == body.job_id
              started == [IdleMgr EXCEPT !.op = "startJob", !.job = j, !.body = body]
          IN  mgr' = IF MissingFields(body)
                     THEN [started EXCEPT !.pc = "done", !.outcome = "rejected"]
                     ELSE IF fetched /\ j \in DOMAIN jobs
                     THEN [started EXCEPT !.pc = IF jobs[j].status # "running"
                                                THEN "start_update" ELSE "start_notify"]
                     ELSE [started EXCEPT !.pc = "done", !.outcome = "raised"]
    /\ UNCHANGED <<jobs, submitted>>
    /\ Quiet
    /\ MgrUnchanged

\* A startJob that stamps completed_at with the start.
StartJobUpdateStamps ==
    /\ mgr.pc = "start_update"
    /\ jobs' = Update(mgr.job, [status |-> "running", started_at |-> now,
                                progress_percentage |-> 0, completed_at |-> now])
    /\ mgr' = [mgr EXCEPT !.pc = "start_notify"]
    /\ UNCHANGED <<submitted>>
    /\ Quiet
    /\ MgrUnchanged

\* startJob: the update of a job that was not running; its result is not read.
StartJobUpdate ==
    /\ mgr.pc = "start_update"
    /\ \E accepted \in StoreReplies :
          jobs' = IF accepted
                  THEN Update(mgr.job, [status |-> "running", started_at |-> now,
                                        progress_percentage |-> 0])
                  ELSE jobs
    /\ mgr' = [mgr EXCEPT !.pc = "start_notify"]
    /\ UNCHANGED <<submitted>>
    /\ Quiet
    /\ MgrUnchanged

StartJobNotify ==
    /\ mgr.pc = "start_notify"
    /\ \E delivered \in NotifyReplies :
          notifications' = managerSendNotification(mgr.job, "started", delivered)
    /\ mgr' = [IdleMgr EXCEPT !.pc = "done", !.op = mgr.op, !.job = mgr.job, !.outcome = "returned"]
    /\ UNCHANGED <<jobs, submitted>>
    /\ MgrUnchanged

\* cancelJob: the select and the three checks.
CancelJobRequest(j, u) ==
    /\ mgr.pc = "idle"
    /\ \E fetched \in StoreReplies :
          mgr' = IF /\ fetched
                    /\ j \in DOMAIN jobs
                    /\ jobs[j].tour_operator_id = u
                    /\ jobs[j].status \in {"running", "processing"}
                 THEN [IdleMgr EXCEPT !.op = "cancelJob", !.job = j, !.user = u,
                                      !.pc = "cancel_update"]
                 ELSE [IdleMgr EXCEPT !.pc = "done", !.outcome = "raised"]
    /\ UNCHANGED <<jobs, submitted>>
    /\ Quiet
    /\ MgrUnchanged

\* A cancel that resets the counters of the job with its status.
CancelJobUpdateResets ==
    /\ mgr.pc = "cancel_update"
    /\ jobs' = Update(mgr.job, [status |-> "cancelled", error |-> MsgCancelled,
                                progress_percentage |-> 0, imported_count |-> 0])
    /\ mgr' = [mgr EXCEPT !.pc = "cancel_notify"]
    /\ UNCHANGED <<submitted>>
    /\ Quiet
    /\ MgrUnchanged

\* cancelJob: the update to cancelled; its result is not read.
CancelJobUpdate ==
    /\ mgr.pc = "cancel_update"
    /\ \E accepted \in StoreReplies :
          jobs' = IF accepted
                  THEN Update(mgr.job, [status |-> "cancelled", error |-> MsgCancelled])
                  ELSE jobs
    /\ mgr' = [mgr EXCEPT !.pc = "cancel_notify"]
    /\ UNCHANGED <<submitted>>
    /\ Quiet
    /\ MgrUnchanged

CancelJobNotify ==
    /\ mgr.pc = "cancel_notify"
    /\ \E delivered \in NotifyReplies :
          notifications' = managerSendNotification(mgr.job, "cancelled", delivered)
    /\ mgr' = [IdleMgr EXCEPT !.pc = "done", !.op = mgr.op, !.job = mgr.job, !.outcome = "returned"]
    /\ UNCHANGED <<jobs, submitted>>
    /\ MgrUnchanged

\* A retryJob that selects the job by id alone.
RetryJobRequestAnyOwner(j, u) ==
    /\ mgr.pc = "idle"
    /\ LET retry == [IdleMgr EXCEPT !.op = "retryJob", !.job = j, !.user = u]
       IN  mgr' = IF j \in DOMAIN jobs /\ jobs[j].status = "failed"
                  THEN [retry EXCEPT !.pc = "retry_update"]
                  ELSE [retry EXCEPT !.pc = "done", !.outcome = "raised"]
    /\ UNCHANGED <<jobs, submitted>>
    /\ Quiet
    /\ MgrUnchanged

\* retryJob: the select by id and owner, and the status check.
RetryJobRequest(j, u) ==
    /\ mgr.pc = "idle"
    /\ \E fetched \in StoreReplies :
          LET retry == [IdleMgr EXCEPT !.op = "retryJob", !.job = j, !.user = u]
          IN  mgr' = IF /\ fetched
                        /\ j \in DOMAIN jobs
                        /\ jobs[j].tour_operator_id = u
                        /\ jobs[j].status = "failed"
                     THEN [retry EXCEPT !.pc = "retry_update"]
                     ELSE [retry EXCEPT !.pc = "done", !.outcome = "raised"]
    /\ UNCHANGED <<jobs, submitted>>
    /\ Quiet
    /\ MgrUnchanged

\* retryJob: the reset of the job.
RetryJobUpdate ==
    /\ mgr.pc = "retry_update"
    /\ \E accepted \in StoreReplies :
          /\ jobs' = IF accepted
                     THEN Update(mgr.job, [status |-> "running", started_at |-> now,
                                           progress_percentage |-> 0, imported_count |-> 0,
                                           error |-> NoError, last_cursor |-> NullCursor])
                     ELSE jobs
          /\ submitted' = IF accepted THEN [submitted EXCEPT ![mgr.job] = 0] ELSE submitted
    /\ mgr' = [mgr EXCEPT !.pc = "retry_notify"]
    /\ Quiet
    /\ MgrUnchanged

RetryJobNotify ==
    /\ mgr.pc = "retry_notify"
    /\ \E delivered \in NotifyReplies :
          notifications' = managerSendNotification(mgr.job, "started", delivered)
    /\ mgr' = [IdleMgr EXCEPT !.pc = "done", !.op = mgr.op, !.job = mgr.job, !.outcome = "returned"]
    /\ UNCHANGED <<jobs, submitted>>
    /\ MgrUnchanged

\* The handler answers the request.
MgrRespond ==
    /\ mgr.pc = "done"
    /\ mgr' = IdleMgr
    /\ UNCHANGED <<jobs, submitted>>
    /\ Quiet
    /\ MgrUnchanged

\* SIGTERM or SIGINT: the process exits and is started again; the requests in
\* flight are gone, the tables stay.
Restart ==
    /\ \E c \in DOMAIN call : call[c].pc # "idle"
    /\ call' = [c \in DOMAIN call |-> IdleCall]
    /\ mgr' = IdleMgr
    /\ UNCHANGED <<jobs, reviews, now, nextTask, rawResult, submitted, faults>>
    /\ Quiet

\* Time passes.
Tick ==
    /\ now < MaxClock
    /\ now' = now + 1
    /\ UNCHANGED <<jobs, reviews, call, mgr, nextTask, rawResult, submitted, faults>>
    /\ Quiet

----------------------------------------------------------------------------
\* Result sets of the provider.

Page(items) == [has_items |-> TRUE, items |-> items]
NoItemsPage == [has_items |-> FALSE, items |-> <<>>]

WithId1 == [review_id |-> "r1", id |-> Absent, date_of_review |-> "2024-01-01",
        rating |-> NoRating, score |-> 0]
WithId2 == [review_id |-> Absent, id |-> "r2", date_of_review |-> "2024-01-01",
        rating |-> NoRating, score |-> 0]
WithoutId == [review_id |-> Absent, id |-> Absent, date_of_review |-> "2024-01-01",
        rating |-> NoRating, score |-> 0]

\* The result sets of the orchestration runs: no page, a page without items,
\* two pages of identified items and one item without identifier, and a page
\* of two items and nine nulls, the progress of whose first batch is 25.
LongPage == Page([k \in 1..11 |-> IF k <= 2 THEN WithId1 ELSE NullItem])

SomeResults ==
    { <<>>,
      <<NoItemsPage>>,
      <<Page(<<WithId1, WithoutId>>), Page(<<WithId2>>)>>,
      <<LongPage>> }

----------------------------------------------------------------------------
\* The specifications.  Each starts from jobs as the front end creates them
\* (queued, nothing imported) and differs in the requests that arrive and in
\* the calls that may fail.

InitWith(callers, rows, results, failing) ==
    /\ jobs = rows
    /\ reviews = {}
    /\ notifications = {}
    /\ call = [c \in callers |-> IdleCall]
    /\ mgr = IdleMgr
    /\ now = 0
    /\ nextTask = 1
    /\ rawResult \in results
    /\ submitted = [j \in JobIds \cup DOMAIN rows |-> 0]
    /\ faults = failing

OneJob == "j1" :> JobRow("tripadvisor", "/Attraction_Review")

ProcessorNext ==
    \/ \E c \in DOMAIN call, j \in JobIds : ProcessJobRequest(c, j)
    \/ \E c \in DOMAIN call : SweepRequest(c)
    \/ \E c \in DOMAIN call : PjSelect(c)
    \/ \E c \in DOMAIN call : PjMark(c)
    \/ \E c \in DOMAIN call : TaCreate(c)
    \/ \E c \in DOMAIN call : TaCursor(c)
    \/ \E c \in DOMAIN call : Poll(c)
    \/ \E c \in DOMAIN call : Batch(c)
    \/ \E c \in DOMAIN call : BatchProgress(c)
    \/ \E c \in DOMAIN call : BatchNotify(c)
    \/ \E c \in DOMAIN call : Complete(c)
    \/ \E c \in DOMAIN call : CompleteNotify(c)
    \/ \E c \in DOMAIN call : PjCatch(c)
    \/ \E c \in DOMAIN call : FailNotify(c)
    \/ \E c \in DOMAIN call : Respond(c)

ManagerNext ==
    \/ \E j \in JobIds : StartJobRequest(StartBody(j))
    \/ StartJobUpdate
    \/ StartJobNotify
    \/ \E j \in JobIds, u \in Users : CancelJobRequest(j, u)
    \/ CancelJobUpdate
    \/ CancelJobNotify
    \/ \E j \in JobIds, u \in Users : RetryJobRequest(j, u)
    \/ RetryJobUpdate
    \/ RetryJobNotify
    \/ MgrRespond

\* One job, one processor request at a time, the job manager's requests
\* interleaved with it; every store and provider call answers.
Init == InitWith({"c1"}, OneJob, SomeResults, {})

Next == ProcessorNext \/ ManagerNext

Spec == Init /\ [][Next]_vars

\* Two processor requests at a time on the one job, whose task holds items.
InitOverlap ==
    InitWith({"c1", "c2"}, OneJob, {<<LongPage>>}, {})

SpecOverlap == InitOverlap /\ [][ProcessorNext]_vars

\* One processor request at a time on the one job, and the process restarting.
InitRestart == InitWith({"c1"}, OneJob, {<<LongPage>>}, {})

NextRestart == ProcessorNext \/ Restart

SpecRestart == InitRestart /\ [][NextRestart]_vars

\* The import over every result set of up to MaxItems items, in one or two
\* pages, while time passes.
ItemSeqs == UNION {[1..n -> ItemShapes] : n \in 0..MaxItems}

ResultSets ==
    {<<>>, <<NoItemsPage>>, <<LongPage>>}
        \cup {<<Page(s)>> : s \in ItemSeqs}
        \cup {<<Page(SubSeq(s, 1, 1)), Page(SubSeq(s, 2, Len(s)))>> : s \in ItemSeqs \ {<<>>}}

InitImport == InitWith({"c1"}, OneJob, ResultSets, {})

NextImport == ProcessorNext \/ Tick

SpecImport == InitImport /\ [][NextImport]_vars

\* A sweep over three jobs that startJob has set running: each is a tripadvisor
\* job with a path or with a URL no pattern matches, a google job, or a job
\* of a platform the switch of processJob does not know.
RunningRow(platform, businessId) ==
    [JobRow(platform, businessId) EXCEPT !.status = "running", !.started_at = 0]

SweepRows ==
    { RunningRow("tripadvisor", "/Attraction_Review"),
      RunningRow("tripadvisor", "http://bad"),
      RunningRow("google", "place"),
      RunningRow("yelp", "place") }

SweepTables == [{"j1", "j2", "j3"} -> SweepRows]

InitSweep ==
    /\ \E rows \in SweepTables : jobs = rows
    /\ InitWith({"c1"}, jobs, SomeResults, {})

NextSweep ==
    \/ \E c \in DOMAIN call : SweepRequest(c)
    \/ \E c \in DOMAIN call : PjSelect(c)
    \/ \E c \in DOMAIN call : PjMark(c)
    \/ \E c \in DOMAIN call : TaCreate(c)
    \/ \E c \in DOMAIN call : TaCursor(c)
    \/ \E c \in DOMAIN call : Poll(c)
    \/ \E c \in DOMAIN call : Batch(c)
    \/ \E c \in DOMAIN call : BatchProgress(c)
    \/ \E c \in DOMAIN call : BatchNotify(c)
    \/ \E c \in DOMAIN call : Complete(c)
    \/ \E c \in DOMAIN call : CompleteNotify(c)
    \/ \E c \in DOMAIN call : PjCatch(c)
    \/ \E c \in DOMAIN call : FailNotify(c)
    \/ \E c \in DOMAIN call : Respond(c)

SpecSweep == InitSweep /\ [][NextSweep]_vars

\* One processing request at a time on one job of any of the kinds above, from
\* the state the front end creates it in, with a provider that may answer a
\* task_post without an id, with an HTTP error, or not at all.
ErrorRows == {[r EXCEPT !.status = "queued", !.started_at = NoTime] : r \in SweepRows}

InitErrors ==
    /\ \E r \in ErrorRows : jobs = "j1" :> r
    /\ InitWith({"c1"}, jobs, SomeResults, {"provider"})

SpecErrors == InitErrors /\ [][ProcessorNext]_vars

\* One processing request at a time on the one job, the provider holding one
\* to three chunks of items with identifiers of their own, or a page of two
\* such items and nine nulls (the progress of whose first chunk is 25), and an
\* upsert that may fail.
WithId3 == [review_id |-> "r3", id |-> Absent, date_of_review |-> "2024-01-01",
        rating |-> NoRating, score |-> 0]
WithId4 == [review_id |-> Absent, id |-> "r4", date_of_review |-> "2024-01-01",
        rating |-> NoRating, score |-> 0]
WithId5 == [review_id |-> "r5", id |-> "r5", date_of_review |-> "2024-01-01",
        rating |-> NoRating, score |-> 0]

ChunkResults ==
    { <<Page(<<WithId1>>)>>,
      <<Page(<<WithId1, WithId2>>), Page(<<WithId3>>)>>,
      <<Page(<<WithId1, WithId2, WithId3, WithId4, WithId5>>)>>,
      <<Page([k \in 1..11 |-> IF k = 1 THEN WithId1 ELSE IF k = 2 THEN WithId2 ELSE NullItem])>> }

InitChunks == InitWith({"c1"}, OneJob, ChunkResults, {"reviews"})

SpecChunks == InitChunks /\ [][ProcessorNext]_vars

\* The requests of Spec with a job_notifications table whose inserts may fail.
InitNotify == InitWith({"c1"}, OneJob, SomeResults, {"notify"})

SpecNotify == InitNotify /\ [][Next]_vars

\* One processing request at a time on a tripadvisor job created with
\* full_history true or false, and createGoogleTask called with either.
DepthRows == {[JobRow("tripadvisor", "/Attraction_Review") EXCEPT !.full_history = h] : h \in BOOLEAN}

InitDepth ==
    /\ \E r \in DepthRows : jobs = "j1" :> r
    /\ InitWith({"c1"}, jobs, SomeResults, {})

NextDepth ==
    \/ ProcessorNext
    \/ \E c \in DOMAIN call, h \in BOOLEAN : CreateGoogleTaskCall(c, "place", h)

SpecDepth == InitDepth /\ [][NextDepth]_vars

\* Start requests with every body, complete or lacking fields, for the job
\* that exists or for another, while the job is processed.
InitStart == InitWith({"c1"}, OneJob, SomeResults, {})

NextStart ==
    \/ ProcessorNext
    \/ \E body \in StartBodies : StartJobRequest(body)
    \/ StartJobUpdate
    \/ StartJobNotify
    \/ MgrRespond

SpecStart == InitStart /\ [][NextStart]_vars

\* One item with an identifier and each shape of rating and score the provider
\* may send, or the long page, imported by one processing request at a time.
RatingShapes ==
    {NoRating, EmptyObjectRating}
        \cup {NumberRating(n) : n \in {-3, 0, 3, 7}}
        \cup {ObjectRating(v) : v \in {0, 4, 9}}

RatedItems ==
    {[WithId1 EXCEPT !.rating = r, !.score = sc] : r \in RatingShapes, sc \in {0, 2, 8}}

InitRatings ==
    InitWith({"c1"}, OneJob, {<<Page(<<item>>)>> : item \in RatedItems} \cup {<<LongPage>>}, {})

SpecRatings == InitRatings /\ [][ProcessorNext]_vars

\* A sweep over six jobs, more than the limit of the select: five that fail at
\* once and one tripadvisor job, started at 0 or at 1, all eligible or some of
\* them queued, failed or processing without a start time.
SixRows(kinds) ==
    [j \in {"j1", "j2", "j3", "j4", "j5", "j6"} |->
        LET row == IF j = "j1" THEN JobRow("tripadvisor", "/Attraction_Review")
                   ELSE JobRow("yelp", "place")
        IN  CASE kinds[j] = "early" -> [row EXCEPT !.status = "running", !.started_at = 0]
              [] kinds[j] = "late" -> [row EXCEPT !.status = "processing", !.started_at = MaxClock]
              [] kinds[j] = "unstarted" -> [row EXCEPT !.status = "processing"]
              [] kinds[j] = "failed" -> [row EXCEPT !.status = "failed", !.started_at = 0]
              [] OTHER -> row]

SixTables ==
    { SixRows([j1 |-> "late", j2 |-> "early", j3 |-> "early",
               j4 |-> "late", j5 |-> "early", j6 |-> "late"]),
      SixRows([j1 |-> "early", j2 |-> "unstarted", j3 |-> "late",
               j4 |-> "early", j5 |-> "late", j6 |-> "late"]),
      SixRows([j1 |-> "late", j2 |-> "queued", j3 |-> "early",
               j4 |-> "failed", j5 |-> "unstarted", j6 |-> "early"]) }

InitSweepLimit ==
    /\ jobs \in SixTables
    /\ InitWith({"c1"}, jobs, SomeResults, {})

SpecSweepLimit == InitSweepLimit /\ [][NextSweep]_vars

\* One processing request or sweep at a time on the one job, which startJob has
\* set running, with a job store that may reject any select or update.
InitStore ==
    InitWith({"c1"}, "j1" :> RunningRow("tripadvisor", "/Attraction_Review"), SomeResults, {"store"})

SpecStore == InitStore /\ [][ProcessorNext]_vars

\* The processing requests of SpecErrors, where every awaited call of the store
\* and of the provider returns: the request in flight takes its next step.
Continue(c) ==
    \/ PjSelect(c) \/ PjMark(c) \/ TaCreate(c) \/ TaCursor(c) \/ Poll(c)
    \/ Batch(c) \/ BatchProgress(c) \/ BatchNotify(c) \/ Complete(c)
    \/ CompleteNotify(c) \/ PjCatch(c) \/ FailNotify(c)

SpecLive ==
    InitErrors /\ [][ProcessorNext]_vars /\ \A c \in {"c1"} : WF_vars(Continue(c))

----------------------------------------------------------------------------
\* The claims.

\* A request is past the select of processJob and works on its job.
Working(c) ==
    call[c].pc \in {"pj_mark", "ta_create", "ta_cursor", "poll", "batch", "batch_progress",
                    "batch_notify", "complete", "complete_notify", "pj_catch", "fail_notify"}

\* C1: a fetch that reports the task pending never moves the job to failed: no
\* job is failed with the message of the client's pending outcome.
C1_PendingNeverFails ==
    \A j \in DOMAIN jobs :
        ~(jobs[j].status = "failed" /\ jobs[j].error = MsgStillProcessing)

\* The raw items that carry an identifier of their own.
IdentifiedCount(results) ==
    LET all == AllReviews(results)
    IN  Cardinality({k \in DOMAIN all : HasIdentifier(all[k])})

\* Every raw item is an object whose date new Date(..) reads: the presence of
\* an identifier is all that tells the items apart.
OnlyIdentifiersDiffer(results) ==
    LET all == AllReviews(results)
    IN  \A k \in DOMAIN all : all[k] # NullItem /\ all[k].date_of_review # "not a date"

\* C2: items without a derivable identifier are dropped: with every chunk
\* written, a succeeded job whose raw items differ only in carrying an
\* identifier has imported as many records as there are items with an
\* identifier, and its progress is 100.
C2_ImportedCountIsIdentified ==
    \A j \in DOMAIN jobs :
        (jobs[j].status = "succeeded" /\ OnlyIdentifiersDiffer(rawResult)) =>
            /\ jobs[j].imported_count = IdentifiedCount(rawResult)
            /\ jobs[j].progress_percentage = 100

\* The records one import of the result set writes.
RecordsOfOneImport ==
    LET all == AllReviews(rawResult)
        rows == ReviewsToInsert(all, JobRead(OneJob["j1"]), "j1", 0, 0)
    IN  Cardinality({NaturalKey(rows[k]) : k \in DOMAIN rows})

\* C3: importing the same result set again leaves the number of review
\* records what one import makes it.
C3_ReimportKeepsCount == Cardinality(reviews) <= RecordsOfOneImport

\* C4: a request all of whose fetches reported pending fails only by the
\* timeout, after maxPolls fetches.
C4_OnlyPendingTimesOut ==
    \A c \in DOMAIN call :
        (call[c].pc = "pj_catch" /\ call[c].fetches > 0 /\ call[c].pendings = call[c].fetches)
            => (call[c].fetches = maxPolls /\ call[c].error = MsgTimedOut)

\* C5: once cancelled, a job stays cancelled.
C5_CancelledIsTerminal ==
    [][\A j \in DOMAIN jobs :
          jobs[j].status = "cancelled" => jobs'[j].status = "cancelled"]_vars

\* C6: once succeeded, a job stays succeeded.
C6_SucceededIsTerminal ==
    [][\A j \in DOMAIN jobs :
          jobs[j].status = "succeeded" => jobs'[j].status = "succeeded"]_vars

\* C7: a failed job leaves failed only by the update of retryJob.
C7_FailedLeavesByRetry ==
    [][\A j \in DOMAIN jobs :
          (jobs[j].status = "failed" /\ jobs'[j].status # "failed")
              => (mgr.pc = "retry_update" /\ mgr.job = j /\ jobs'[j].status = "running")]_vars

\* C8: between two retries at most one provider task is created for a job.
C8_OneTaskPerRun == \A j \in JobIds : submitted[j] <= 1

\* C9: no two requests work on the same job at the same time.
C9_OneRequestPerJob ==
    \A c, d \in DOMAIN call :
        (c # d /\ Working(c) /\ Working(d)) => call[c].job # call[d].job

\* C10: while a job is running or processing, no write other than the reset of
\* startJob or retryJob lowers its progress_percentage.
C10_ProgressNonDecreasing ==
    [][\A j \in DOMAIN jobs :
          (/\ jobs[j].status \in {"running", "processing"}
           /\ mgr.pc \notin {"start_update", "retry_update"})
              => jobs'[j].progress_percentage >= jobs[j].progress_percentage]_vars

\* C11: the only write that takes a job's progress_percentage from a higher
\* value back to 0 is the update of retryJob.
C11_OnlyRetryResetsProgress ==
    [][\A j \in DOMAIN jobs :
          (jobs[j].progress_percentage > 0 /\ jobs'[j].progress_percentage = 0)
              => (mgr.pc = "retry_update" /\ mgr.job = j)]_vars

\* The latest fetch of the call was answered ok.
FetchedOk(c) == call[c].last.kind = "task" /\ StartsWithOk(call[c].last.status_message)

\* C12: a fetch that succeeds with zero items in total (no result page, or
\* pages without items) finalizes the job: the call goes on to completeJob, and
\* the job succeeds with imported_count 0.
C12_ZeroItemsSucceeds ==
    \A c \in DOMAIN call :
        (Working(c) /\ FetchedOk(c) /\ AllReviews(rawResult) = <<>>)
            => /\ call[c].pc \in {"complete", "complete_notify"}
               /\ call[c].processedCount = 0

\* The sweep of request c has returned a list of results.
SweepReturned(c) == call[c].pc = "done" /\ call[c].results # <<>>

\* C13: a job that raises does not stop the sweep: the list the sweep returns
\* holds one entry for each of the jobs it selected, and each entry tells what
\* became of its own job (success for succeeded, failure for failed).
C13_SweepIsolatesFailures ==
    \A c \in DOMAIN call :
        SweepReturned(c) =>
            LET results == call[c].results IN
            /\ {results[k].job_id : k \in DOMAIN results} = DOMAIN jobs
            /\ Len(results) = Cardinality(DOMAIN jobs)
            /\ \A k \in DOMAIN results :
                  jobs[results[k].job_id].status =
                      (IF results[k].success THEN "succeeded" ELSE "failed")

\* A sweep of three jobs whose second job raised and whose first and third succeeded.
C13_Witness ==
    \E c \in DOMAIN call :
        /\ SweepReturned(c)
        /\ Len(call[c].results) = 3
        /\ call[c].results[1].success
        /\ ~call[c].results[2].success
        /\ call[c].results[3].success

\* C14: when a step of processJob raises for a job that exists, the catch block
\* writes status failed with the message of the error, and then inserts a
\* failed notification for that job.
C14_ErrorMarksFailedAndNotifies ==
    [][\A c \in DOMAIN call :
          LET cr == call[c] IN
          /\ (cr.pc = "pj_catch" /\ cr.job \in DOMAIN jobs) =>
                \/ call'[c].pc = "pj_catch"
                \/ /\ cr.error # NoError
                   /\ jobs'[cr.job].status = "failed"
                   /\ jobs'[cr.job].error = cr.error
                   /\ call'[c].pc = "fail_notify"
          /\ (cr.pc = "fail_notify" /\ cr.job \in DOMAIN jobs) =>
                \/ call'[c].pc = "fail_notify"
                \/ notifications' = {[job_id |-> cr.job, type |-> "failed", inserted |-> TRUE]}]_vars

\* A job failed with the message of an unsupported platform, of a failed
\* submit, of the provider or of the timeout, and the failed notification.
C14_Witness ==
    /\ jobs["j1"].status = "failed"
    /\ jobs["j1"].error \in {MsgUnsupported("yelp"), MsgApiError, MsgTimedOut,
                             MsgRequestFailed(MsgTaskFailed(<<"Task", "Not", "Found", ".">>))}
    /\ notifications = {[job_id |-> "j1", type |-> "failed", inserted |-> TRUE]}

\* The answer to a fetch reports a terminal failure: a status that is not ok and
\* tells of no task in queue or in processing.
TerminalFailure(resp) ==
    /\ resp.kind = "task"
    /\ ~StartsWithOk(resp.status_message)
    /\ ~Includes(resp.status_message, <<"Task", "In", "Queue">>)
    /\ ~Includes(resp.status_message, <<"Task", "Processing">>)

\* C15: after a fetch that reports a terminal failure the call makes no further
\* fetch: it is in the catch block of processJob with an error that holds the
\* provider's message, and the job is failed with it.
C15_ProviderFailureFailsAtOnce ==
    \A c \in DOMAIN call :
        (Working(c) /\ TerminalFailure(call[c].last)) =>
            /\ call[c].pc \in {"pj_catch", "fail_notify"}
            /\ Includes(call[c].error, call[c].last.status_message)
            /\ call[c].pc = "fail_notify" =>
                  /\ jobs[call[c].job].status = "failed"
                  /\ jobs[call[c].job].error = call[c].error

\* The first fetch reported a terminal failure and the job is failed.
C15_Witness ==
    \E c \in DOMAIN call :
        /\ call[c].pc = "fail_notify"
        /\ TerminalFailure(call[c].last)
        /\ call[c].fetches = 1
        /\ jobs[call[c].job].status = "failed"

\* C16: after a submit answered without a task id the call is in the catch
\* block of processJob with a provider error that is not the timeout, it has
\* made no fetch, and the job holds no cursor and is failed with that error.
C16_NoTaskIdFailsAtOnce ==
    \A c \in DOMAIN call :
        (Working(c) /\ call[c].last.kind = "no_id") =>
            /\ call[c].pc \in {"pj_catch", "fail_notify"}
            /\ call[c].error = MsgRequestFailed(MsgCreationFailed)
            /\ call[c].error # MsgTimedOut
            /\ call[c].fetches = 0
            /\ call[c].taskId = 0
            /\ jobs[call[c].job].last_cursor = NullCursor
            /\ call[c].pc = "fail_notify" =>
                  /\ jobs[call[c].job].status = "failed"
                  /\ jobs[call[c].job].error = call[c].error

\* The submit was answered without a task id and the job is failed.
C16_Witness ==
    \E c \in DOMAIN call :
        /\ call[c].pc = "fail_notify"
        /\ call[c].last.kind = "no_id"
        /\ jobs[call[c].job].status = "failed"

\* C17: the update of retryJob sets status running, progress 0, imported_count
\* 0, error null and cursor null; and as long as no task has been submitted for
\* the job since, its cursor holds no task id, so that the next pickup submits
\* a fresh task instead of polling one created before the retry.
C17_RetryThenFreshTask ==
    [][/\ (mgr.pc = "retry_update" /\ mgr'.pc = "retry_notify") =>
             /\ jobs'[mgr.job].status = "running"
             /\ jobs'[mgr.job].progress_percentage = 0
             /\ jobs'[mgr.job].imported_count = 0
             /\ jobs'[mgr.job].error = NoError
             /\ jobs'[mgr.job].last_cursor = NullCursor
       /\ \A j \in DOMAIN jobs :
             submitted'[j] = 0 => jobs'[j].last_cursor = NullCursor]_vars

\* C18: cancelJob goes on to its update only for a job it read as running or
\* processing and owned by the caller; the update sets status cancelled and the
\* fixed error and leaves every other column as it was; no step of cancelJob
\* creates a provider task, and a request that is refused writes nothing.
C18_CancelFrame ==
    [][/\ (mgr.pc = "idle" /\ mgr' # mgr) =>
             /\ jobs' = jobs
             /\ mgr'.pc = "cancel_update" =>
                   /\ jobs[mgr'.job].status \in {"running", "processing"}
                   /\ jobs[mgr'.job].tour_operator_id = mgr'.user
       /\ (mgr.pc = "cancel_update" /\ mgr' # mgr) =>
             /\ jobs' = [jobs EXCEPT ![mgr.job].status = "cancelled",
                                     ![mgr.job].error = MsgCancelled]
             /\ mgr'.pc = "cancel_notify"
       /\ (mgr.pc = "cancel_notify" /\ mgr' # mgr) =>
             /\ jobs' = jobs
             /\ mgr'.outcome = "returned"
       /\ (mgr.op = "cancelJob" /\ mgr' # mgr) =>
             /\ nextTask' = nextTask
             /\ submitted' = submitted]_vars

\* cancelJob has cancelled a job whose cursor holds a task and whose progress
\* and imported_count are above 0, and has left them so.
C18_Witness ==
    /\ mgr.pc = "cancel_notify"
    /\ jobs[mgr.job].status = "cancelled"
    /\ jobs[mgr.job].error = MsgCancelled
    /\ jobs[mgr.job].last_cursor.task_id > 0
    /\ jobs[mgr.job].progress_percentage > 10
    /\ jobs[mgr.job].imported_count > 0

\* The call imports the result set for the first time: it created the job's
\* only task itself.
FirstImport(c) ==
    /\ call[c].job \in DOMAIN jobs
    /\ call[c].snap.last_cursor = NullCursor
    /\ submitted[call[c].job] = 1
    /\ call[c].allReviews # <<>>

\* C19: a chunk whose write fails does not stop the import: a call that has
\* begun to import never reaches the catch block of processJob, it reaches
\* completeJob only past the last chunk, with as many records counted as the
\* chunks that were written hold, and the job succeeds with that count.
C19_ChunkFailureIsSkipped ==
    \A c \in DOMAIN call :
        FirstImport(c) =>
            /\ call[c].pc \notin {"pj_catch", "fail_notify"}
            /\ call[c].pc \in {"complete", "complete_notify"} =>
                  /\ call[c].i >= Len(call[c].allReviews)
                  /\ call[c].processedCount = Cardinality(reviews)
            /\ call[c].pc = "complete_notify" =>
                  /\ jobs[call[c].job].status = "succeeded"
                  /\ jobs[call[c].job].imported_count = Cardinality(reviews)

\* An import of three chunks whose second write failed: the job succeeded
\* with the records of the first and the third chunk.
C19_Witness ==
    \E c \in DOMAIN call :
        /\ FirstImport(c)
        /\ call[c].pc = "complete_notify"
        /\ Len(call[c].allReviews) = 5
        /\ jobs[call[c].job].status = "succeeded"
        /\ jobs[call[c].job].imported_count = 3
        /\ {k[3].given : k \in reviews} = {"r1", "r2", "r5"}

\* The request c answers what processJob or its sweep made of the job: it
\* returned (success) or raised.
Answers(c, job, mode, success) ==
    IF mode = "sweep"
    THEN LET results == call'[c].results IN
         /\ call'[c].pc \in {"done", "pj_select"}
         /\ results # <<>>
         /\ results[Len(results)] = [job_id |-> job, success |-> success]
    ELSE /\ call'[c].pc = "done"
         /\ call'[c].outcome = (IF success THEN "returned" ELSE "raised")

\* C20: a step that sends a notification does the same to the job and to the
\* operation whether the insert is taken or fails: the job record is left as it
\* is, the import goes on with its next chunk or to completeJob, completeJob
\* lets processJob return, the catch block of processJob raises the error it
\* caught, and startJob, cancelJob and retryJob return.
C20_NotificationFailureIsIgnored ==
    [][/\ \A c \in DOMAIN call :
             LET cr == call[c] IN
             /\ (cr.pc = "batch_notify" /\ call'[c] # cr) =>
                   /\ jobs' = jobs
                   /\ call'[c].pc \in {"batch", "complete"}
                   /\ call'[c].processedCount = cr.processedCount
             /\ (cr.pc = "complete_notify" /\ call'[c] # cr) =>
                   /\ jobs' = jobs
                   /\ Answers(c, cr.job, cr.mode, TRUE)
             /\ (cr.pc = "fail_notify" /\ call'[c] # cr) =>
                   /\ jobs' = jobs
                   /\ Answers(c, cr.job, cr.mode, FALSE)
       /\ (mgr.pc \in {"start_notify", "cancel_notify", "retry_notify"} /\ mgr' # mgr) =>
             /\ jobs' = jobs
             /\ mgr'.pc = "done"
             /\ mgr'.outcome = "returned"]_vars

\* The completed notification of a job was not taken, the job is succeeded and
\* the request returns.
C20_Witness ==
    \E c \in DOMAIN call :
        /\ notifications = {[job_id |-> "j1", type |-> "completed", inserted |-> FALSE]}
        /\ call[c].pc = "done"
        /\ call[c].outcome = "returned"
        /\ jobs["j1"].status = "succeeded"

\* C21: the depth of every task_post, to the TripAdvisor and to the Google
\* endpoint, is at most 100 when full_history is false and at most 500 when
\* it is true.
C21_DepthWithinBound ==
    \A c \in DOMAIN call :
        call[c].posted # NoPost =>
            call[c].posted.depth <= (IF call[c].snap.full_history THEN 500 ELSE 100)

\* A TripAdvisor task was posted for a job without full history with depth 100.
C21_Witness ==
    \E c \in DOMAIN call :
        /\ call[c].posted.endpoint = "tripadvisor/reviews/task_post"
        /\ ~call[c].snap.full_history
        /\ call[c].posted.depth = 100
        /\ call[c].pc = "ta_cursor"

\* The error is one of the provider (a failed task_post or task_get) or the timeout.
ProviderErrorOrTimeout(message) ==
    \/ message = MsgTimedOut
    \/ message = MsgApiError
    \/ Includes(message, <<"DataForSEO", "request", "failed", ":">>)

\* C22: a job is left failed with a provider error or the timeout only after
\* the service has attempted it maxRetries times.
C22_FailedAfterMaxRetries ==
    \A c \in DOMAIN call :
        (/\ call[c].pc = "fail_notify"
         /\ call[c].job \in DOMAIN jobs
         /\ jobs[call[c].job].status = "failed"
         /\ ProviderErrorOrTimeout(call[c].error))
            => call[c].attempts >= maxRetries

\* C23: a start request whose body lacks job_id, platform or url, or that
\* names a job the store does not hold, is answered with an error at once: it
\* writes nothing to the job table and makes no provider call.
C23_BadStartIsRejected ==
    [][(/\ mgr.pc = "idle"
        /\ mgr'.op = "startJob"
        /\ MissingFields(mgr'.body) \/ mgr'.body.job_id \notin DOMAIN jobs)
          => /\ mgr'.pc = "done"
             /\ mgr'.outcome \in {"rejected", "raised"}
             /\ jobs' = jobs
             /\ nextTask' = nextTask
             /\ submitted' = submitted
             /\ call' = call]_vars

\* A start request that names the job and lacks the url was rejected while the
\* job was being processed.
C23_Witness ==
    /\ mgr.pc = "done"
    /\ mgr.outcome = "rejected"
    /\ mgr.body.job_id = "j1"
    /\ mgr.body.url = Absent
    /\ jobs["j1"].status = "processing"

\* C24: the progress update of a chunk whose write failed changes neither the
\* imported_count nor the progress_percentage of the job.
C24_FailedChunkKeepsProgress ==
    [][\A c \in DOMAIN call :
          (call[c].pc = "batch_progress" /\ call[c].insertError /\ call'[c] # call[c])
              => /\ jobs'[call[c].job].imported_count = jobs[call[c].job].imported_count
                 /\ jobs'[call[c].job].progress_percentage
                        = jobs[call[c].job].progress_percentage]_vars

\* C25: when the progress update of a chunk takes progress_percentage from the
\* value the chunk before it wrote across 25, 50 or 75, a progress notification
\* follows.
C25_CrossingEmitsProgress ==
    [][\A c \in DOMAIN call :
          LET cr == call[c] IN
          (/\ cr.pc = "batch_progress"
           /\ cr.i > 0
           /\ call'[c] # cr
           /\ \E boundary \in {25, 50, 75} :
                 /\ jobs[cr.job].progress_percentage < boundary
                 /\ boundary <= jobs'[cr.job].progress_percentage)
              => call'[c].pc = "batch_notify"]_vars

\* C26: the progress update of a chunk writes a progress_percentage between 10
\* and 95 that is no less than the value of any shorter prefix of the items;
\* and progress_percentage becomes 100 only in the write of completeJob, with
\* status succeeded.
C26_ImportProgressWindow ==
    [][/\ \A c \in DOMAIN call :
             LET cr == call[c]
                 done == Min(cr.i + batchSize, Len(cr.allReviews))
                 written == jobs'[cr.job].progress_percentage
             IN  (cr.pc = "batch_progress" /\ call'[c] # cr) =>
                    /\ written = ProgressPercentage(done, Len(cr.allReviews))
                    /\ 10 <= written /\ written <= 95
                    /\ \A before \in 1..done :
                          ProgressPercentage(before, Len(cr.allReviews)) <= written
       /\ \A j \in DOMAIN jobs :
             (jobs'[j].progress_percentage = 100 /\ jobs[j].progress_percentage # 100) =>
                /\ jobs'[j].status = "succeeded"
                /\ \E c \in DOMAIN call : call[c].pc = "complete" /\ call[c].job = j]_vars

\* The third and last chunk of five items has written progress 95, before
\* completeJob.
C26_Witness ==
    \E c \in DOMAIN call :
        /\ call[c].pc = "complete"
        /\ Len(call[c].allReviews) = 5
        /\ jobs[call[c].job].status = "processing"
        /\ jobs[call[c].job].progress_percentage = 95

\* C27: every record the import writes has a rating that is a number from 1 to 5.
C27_RatingWithinRange ==
    \A c \in DOMAIN call :
        \A k \in DOMAIN call[c].ratings :
            /\ ~call[c].ratings[k].nan
            /\ call[c].ratings[k].n \in 1..5

\* C28: the pickup of a tripadvisor job whose business id yields a path goes
\* on to the submit when the cursor it read holds no task id, and to the poll
\* of the cursor's task id otherwise; a task is created only by such a submit;
\* after the submit the write of the cursor sets the task id with the time,
\* status processing and progress 10, before the call has made any fetch; and
\* a poll creates no task.
C28_SubmitIffNoCursor ==
    [][/\ \A c \in DOMAIN call :
             LET cr == call[c] IN
             /\ (/\ cr.pc = "pj_mark" /\ call'[c] # cr
                 /\ cr.snap.platform = "tripadvisor"
                 /\ ValidBusinessId(cr.snap.source_business_id)) =>
                   IF cr.snap.last_cursor.task_id = 0
                   THEN call'[c].pc = "ta_create"
                   ELSE /\ call'[c].pc = "poll"
                        /\ call'[c].taskId = cr.snap.last_cursor.task_id
                        /\ call'[c].posted = NoPost
             /\ (cr.pc = "ta_create" /\ call'[c].pc = "ta_cursor") =>
                   /\ call'[c].taskId = nextTask
                   /\ call'[c].taskId > 0
             /\ (cr.pc = "ta_cursor" /\ call'[c] # cr) =>
                   /\ jobs'[cr.job].last_cursor = [task_id |-> cr.taskId, created_at |-> now]
                   /\ jobs'[cr.job].status = "processing"
                   /\ jobs'[cr.job].progress_percentage = 10
                   /\ call'[c].pc = "poll"
                   /\ call'[c].fetches = 0
             /\ (cr.pc = "poll" /\ call'[c] # cr) =>
                   /\ cr.taskId > 0
                   /\ nextTask' = nextTask
                   /\ submitted' = submitted
       /\ \A j \in DOMAIN submitted :
             submitted'[j] > submitted[j] =>
                \E c \in DOMAIN call :
                    /\ call[c].pc = "ta_create"
                    /\ call[c].job = j
                    /\ call[c].snap.last_cursor.task_id = 0]_vars

\* A pickup found a task id in the cursor and has fetched for it without a
\* submit of its own.
C28_Witness ==
    \E c \in DOMAIN call :
        /\ call[c].pc = "poll"
        /\ call[c].snap.last_cursor.task_id > 0
        /\ call[c].taskId = call[c].snap.last_cursor.task_id
        /\ call[c].posted = NoPost
        /\ call[c].fetches = 1

\* C29: the pickup of a google job submits a Google task: the call does not
\* raise before it has posted one.
C29_GoogleJobIsSubmitted ==
    \A c \in DOMAIN call :
        (call[c].pc \in {"pj_catch", "fail_notify"} /\ call[c].snap.platform = "google")
            => call[c].posted.endpoint = "google/reviews/task_post"

\* C30: a write that changes completed_at is the write of completeJob and
\* leaves the job in a terminal status; no write that leaves the job queued,
\* running or processing changes completed_at.
C30_CompletedAtOnlyOnTerminal ==
    [][\A j \in DOMAIN jobs :
          jobs'[j].completed_at # jobs[j].completed_at =>
             /\ jobs'[j].status \in {"succeeded", "failed", "cancelled"}
             /\ jobs'[j].status \notin {"queued", "running", "processing"}
             /\ \E c \in DOMAIN call : call[c].pc = "complete" /\ call[c].job = j]_vars

\* completeJob has written completed_at together with status succeeded, for a
\* job that startJob had set running and the import had taken to 95.
C30_Witness ==
    \E c \in DOMAIN call :
        /\ call[c].pc = "complete_notify"
        /\ call[c].processedCount > 0
        /\ jobs["j1"].completed_at = now
        /\ jobs["j1"].started_at = now
        /\ jobs["j1"].status = "succeeded"

\* C31: the list a sweep selects holds at most maxConcurrentJobs jobs, each
\* once, each running or processing when selected, those with a start time in
\* ascending order of it and before those without; the sweep works on the head
\* of its list, and goes on to the next job only from the last step of
\* processJob on the job before, whose outcome it has then recorded.
C31_SweepSelectsAndRunsInOrder ==
    [][\A c \in DOMAIN call :
          LET cr == call[c]
              q == call'[c].queue
          IN
          /\ (cr.pc = "idle" /\ call'[c].mode = "sweep") =>
                /\ Len(q) <= maxConcurrentJobs
                /\ Len(q) = Min(maxConcurrentJobs, Cardinality(Eligible))
                /\ call'[c].job = q[1]
                /\ \A k \in DOMAIN q : jobs[q[k]].status \in {"running", "processing"}
                /\ \A a, b \in DOMAIN q :
                      a < b =>
                         /\ q[a] # q[b]
                         /\ jobs[q[b]].started_at # NoTime =>
                               /\ jobs[q[a]].started_at # NoTime
                               /\ jobs[q[a]].started_at <= jobs[q[b]].started_at
          /\ (cr.mode = "sweep" /\ call'[c].mode = "sweep" /\ call'[c].job # cr.job) =>
                /\ cr.pc \in {"complete_notify", "fail_notify"}
                /\ call'[c].pc = "pj_select"
                /\ q = Tail(cr.queue)
                /\ call'[c].job = q[1]
                /\ call'[c].results =
                      Append(cr.results, [job_id |-> cr.job,
                                          success |-> cr.pc = "complete_notify"])]_vars

\* A sweep over six eligible jobs selected five, has recorded the first and
\* works on the second.
C31_Witness ==
    \E c \in DOMAIN call :
        /\ call[c].mode = "sweep"
        /\ call[c].pc = "pj_mark"
        /\ Len(call[c].results) = 1
        /\ Len(call[c].queue) = 4
        /\ \A j \in DOMAIN jobs : jobs[j].started_at # NoTime

\* C32: when a completed notification is inserted the stored status of its job
\* is succeeded, and when a failed notification is inserted it is failed.
C32_TerminalNotificationMirrorsStatus ==
    \A n \in notifications :
        /\ n.type = "completed" => jobs[n.job_id].status = "succeeded"
        /\ n.type = "failed" => jobs[n.job_id].status = "failed"

\* C33: a retryJob for a job that is not failed, that belongs to another user
\* or that does not exist raises at once, with the job table unchanged and no
\* notification inserted, and the answer of the request writes nothing either.
C33_RefusedRetryChangesNothing ==
    [][/\ (/\ mgr.pc = "idle"
           /\ mgr'.op = "retryJob"
           /\ \/ mgr'.job \notin DOMAIN jobs
              \/ jobs[mgr'.job].status # "failed"
              \/ jobs[mgr'.job].tour_operator_id # mgr'.user)
             => /\ mgr'.pc = "done"
                /\ mgr'.outcome = "raised"
                /\ jobs' = jobs
                /\ notifications' = {}
       /\ (mgr.pc = "done" /\ mgr' # mgr)
             => /\ mgr' = IdleMgr
                /\ jobs' = jobs
                /\ notifications' = {}]_vars

\* A retryJob by another user for a failed job has raised, and the job is
\* failed as before.
C33_Witness ==
    /\ mgr.pc = "done"
    /\ mgr.op = "retryJob"
    /\ mgr.outcome = "raised"
    /\ mgr.job = "j1"
    /\ mgr.user = "u2"
    /\ jobs["j1"].status = "failed"
    /\ jobs["j1"].error # NoError

\* C34: every processJob that was called comes to its end; and when it has,
\* with no other operation on the job and every write taken, the job is
\* succeeded if processJob returned and failed if it raised.
C34_ProcessJobTerminates ==
    /\ \A c \in {"c1"} : (call[c].pc = "pj_select") ~> (call[c].pc = "done")
    /\ [](\A c \in DOMAIN call :
             (call[c].pc = "done" /\ call[c].job \in DOMAIN jobs) =>
                 jobs[call[c].job].status =
                     (IF call[c].outcome = "returned" THEN "succeeded" ELSE "failed"))

\* A processJob whose every fetch found the task pending has raised after
\* maxPolls fetches, and the job is failed with the timeout.
C34_Witness ==
    \E c \in DOMAIN call :
        /\ call[c].pc = "done"
        /\ call[c].outcome = "raised"
        /\ jobs["j1"].status = "failed"
        /\ jobs["j1"].error = MsgTimedOut

\* C35: in every state, a job whose status is succeeded has progress_percentage
\* 100 and an imported_count no greater than its total_available.
C35_SucceededIsComplete ==
    \A j \in DOMAIN jobs :
        jobs[j].status = "succeeded" =>
            /\ jobs[j].progress_percentage = 100
            /\ jobs[j].imported_count <= jobs[j].total_available

\* A succeeded job that imported two of the eleven items found, after startJob
\* had set it running.
C35_Witness ==
    /\ jobs["j1"].status = "succeeded"
    /\ jobs["j1"].started_at # NoTime
    /\ jobs["j1"].progress_percentage = 100
    /\ jobs["j1"].imported_count = 2
    /\ jobs["j1"].total_available = 11

\* C36: a write that the store rejects leaves the job as it was and is not
\* raised: the steps of processJob that write go on as they do when the write
\* is taken (completeJob to its notification and the return, the catch block
\* to its notification and the rethrow, the cursor write to the poll, the
\* progress update to the next chunk), and a sweep whose select is answered
\* selects every job still running or processing when there are at most
\* maxConcurrentJobs of them, the job whose succeeded or failed write was
\* rejected among them.
C36_RejectedWriteIsSwallowed ==
    [][\A c \in DOMAIN call :
          LET cr == call[c] IN
          /\ (cr.pc = "complete" /\ call'[c] # cr) =>
                /\ call'[c] = [cr EXCEPT !.pc = "complete_notify"]
                /\ jobs' = jobs \/ jobs'[cr.job].status = "succeeded"
          /\ (cr.pc = "complete_notify" /\ call'[c] # cr) =>
                Answers(c, cr.job, cr.mode, TRUE)
          /\ (cr.pc = "pj_catch" /\ call'[c] # cr) =>
                /\ call'[c] = [cr EXCEPT !.pc = "fail_notify"]
                /\ jobs' = jobs \/ jobs'[cr.job].status = "failed"
          /\ (cr.pc = "fail_notify" /\ call'[c] # cr) =>
                Answers(c, cr.job, cr.mode, FALSE)
          /\ (cr.pc = "ta_cursor" /\ call'[c] # cr) =>
                call'[c] = [cr EXCEPT !.pc = "poll"]
          /\ (cr.pc = "batch_progress" /\ call'[c] # cr) =>
                /\ call'[c].pc \in {"batch_notify", "batch", "complete"}
                /\ call'[c].processedCount = cr.processedCount
          /\ (cr.pc = "idle" /\ call'[c].mode = "sweep"
                /\ Cardinality({j \in DOMAIN jobs :
                       jobs[j].status \in {"running", "processing"}}) <= maxConcurrentJobs) =>
                \A j \in DOMAIN jobs :
                    jobs[j].status \in {"running", "processing"} =>
                        \E k \in DOMAIN call'[c].queue : call'[c].queue[k] = j]_vars

\* The import of three items went through, the write of succeeded was rejected,
\* and the next sweep has selected the job, still processing, again.
C36_Witness ==
    \E c \in DOMAIN call :
        /\ call[c].mode = "sweep"
        /\ call[c].pc = "pj_select"
        /\ call[c].job = "j1"
        /\ jobs["j1"].status = "processing"
        /\ jobs["j1"].progress_percentage = 95
        /\ jobs["j1"].imported_count = 3

====
